---- MODULE Spec2Model ----
(***************************************************************************)
(* Model of the bank-statement parser generator: the column mapper         *)
(* (agent_utils.guess_column_mapping and the generated _guess_mapping),     *)
(* the generated parse routine, the validator                               *)
(* (agent_utils.attempt_generate_and_validate) and the attempt loop         *)
(* (agent.run_agent).                                                       *)
(*                                                                         *)
(* Python strings are TLA+ strings; characters are substrings of length 1. *)
(***************************************************************************)
EXTENDS Integers, Sequences, FiniteSets, TLC

VARIABLES
    \* -- the column mapper called on its own (MapSpec)
    found_cols,      \* the raw labels handed to the mapper
    expected_cols,   \* the schema handed to the mapper
    mapping,         \* <<>> before the call, <<m>> after it (m: label -> schema column)
    mapper,          \* "none", or which of the two mappers produced `mapping`
    \* -- the generated parse routine called on its own (ParseSpec)
    document,        \* the pages pdfplumber yields
    schema,          \* the EXPECTED_COLUMNS literal of the artifact
    returned,        \* <<>> before the call, <<result of parse>> after it
    \* -- the installed pandas: TRUE when it has DataFrame.map
    pandas_frame_map,
    \* -- one run of run_agent (Spec)
    pdf,             \* <<>> when no PDF is under the data directory, else <<document>>
    csv,             \* <<>> when no CSV is there, else <<reference file>>
    max_attempts,
    parser_file,     \* custom_parsers/<target>_parser.py: <<>> or <<content>>
    sys_modules,     \* the registry entry of the target's parser module: <<>> or <<module>>
    pc,              \* position of the run
    attempt,         \* the loop variable of run_agent
    expected,        \* attempt-local: <<[cols, df]>> once the reference is read
    module,          \* attempt-local: <<module>> once loaded
    parsed,          \* attempt-local: <<[by, df]>> once parse has returned
    result,          \* attempt-local: <<[success, debug]>> once compared
    out,             \* the lines printed so far
    exit_code,       \* <<>> until run_agent returns, then <<code>>
    \* -- history of the run, for stating the claims
    steps,           \* the steps of the current attempt, in order
    hist,            \* one record per validated attempt
    writes,          \* the attempt of each write of parser_file
    edits            \* how often the reference or the sample changed under the run

mvars == <<found_cols, expected_cols, mapping, mapper>>
pvars == <<document, schema, returned>>
rvars == <<pdf, csv, max_attempts, parser_file, sys_modules, pc, attempt, expected,
           module, parsed, result, out, exit_code, steps, hist, writes, edits>>
vars == <<mvars, pvars, pandas_frame_map, rvars>>

-----------------------------------------------------------------------------
(* Bounds of the model *)

MaxFound == 2        \* raw labels per mapper call
MaxCols == 2         \* header cells of a generated raw table
MaxAttemptsBound == 3 \* largest --max-attempts the model draws
MaxEdits == 1        \* changes of the reference or the sample during a run

-----------------------------------------------------------------------------
(* Python str primitives *)

CharAt(s, i) == SubSeq(s, i, i)

UpperChars == "ABCDEFGHIJKLMNOPQRSTUVWXYZ"
LowerChars == "abcdefghijklmnopqrstuvwxyz"

LowerTable == [c \in {CharAt(UpperChars, i) : i \in 1..Len(UpperChars)} |->
                 CharAt(LowerChars, CHOOSE i \in 1..Len(UpperChars) : CharAt(UpperChars, i) = c)]

\* str.lower() on one character
LowerChar(c) == IF c \in DOMAIN LowerTable THEN LowerTable[c] ELSE c

RECURSIVE Lower(_)
Lower(s) == IF s = "" THEN "" ELSE Lower(SubSeq(s, 1, Len(s) - 1)) \o LowerChar(CharAt(s, Len(s)))

IsSpace(c) == c \in {" ", "\t", "\n"}

RECURSIVE LStrip(_)
LStrip(s) == IF s # "" /\ IsSpace(CharAt(s, 1)) THEN LStrip(SubSeq(s, 2, Len(s))) ELSE s

RECURSIVE RStrip(_)
RStrip(s) ==
    IF s # "" /\ IsSpace(CharAt(s, Len(s))) THEN RStrip(SubSeq(s, 1, Len(s) - 1)) ELSE s

Strip(s) == RStrip(LStrip(s))

\* Python `k in s` for strings
Contains(k, s) == \E i \in 1..(Len(s) - Len(k) + 1) : SubSeq(s, i, i + Len(k) - 1) = k

\* Python `x in seq` for lists
InSeq(x, seq) == \E i \in 1..Len(seq) : seq[i] = x

\* F applied to the value of v, with v evaluated once (a Python local)
Eval(v, F(_)) == CHOOSE r \in {F(x) : x \in {v}} : TRUE

-----------------------------------------------------------------------------
(* The column mapper *)

\* the bucket table, in dict insertion order
key_map == <<
    [key |-> "date",        kws |-> <<"date", "txn date", "transaction date">>],
    [key |-> "description", kws |-> <<"description", "narration", "details">>],
    [key |-> "debit",       kws |-> <<"debit", "withdrawal", "dr", "debit amt">>],
    [key |-> "credit",      kws |-> <<"credit", "deposit", "cr", "credit amt">>],
    [key |-> "balance",     kws |-> <<"balance", "closing balance", "available balance">> ] >>

\* any(k in fl for k in keywords)
AnyKeywordIn(kws, fl) == \E i \in 1..Len(kws) : Contains(kws[i], fl)

\* exact pass: the first schema column equal to the label up to case and
\* surrounding whitespace, as <<column>>, or <<>>
ExactMatch(fl, cols) ==
    LET hits == {i \in 1..Len(cols) : Strip(Lower(cols[i])) = fl}
    IN IF hits = {} THEN <<>>
       ELSE <<cols[CHOOSE i \in hits : \A j \in hits : i <= j]>>

\* `for e in expected_cols: if expected_key in e.lower(): matched = e; break`
FirstColumnContaining(key, cols) ==
    LET hits == {i \in 1..Len(cols) : Contains(key, Lower(cols[i]))}
    IN IF hits = {} THEN <<>>
       ELSE <<cols[CHOOSE i \in hits : \A j \in hits : i <= j]>>

\* a keyword pass that lets the first bucket with a keyword in the label
\* decide alone, also when the schema has no column for it
KeywordMatchStopsAtFirstBucket(fl, cols, b) ==
    LET bs == {x \in b..Len(key_map) : AnyKeywordIn(key_map[x].kws, fl)}
    IN IF bs = {} THEN <<>>
       ELSE FirstColumnContaining(key_map[CHOOSE x \in bs : \A y \in bs : x <= y].key, cols)

\* keyword pass from bucket b on: a bucket whose keyword occurs in the label
\* looks for a schema column; the loop stops at the first bucket that found one
RECURSIVE KeywordMatch(_, _, _)
KeywordMatch(fl, cols, b) ==
    IF b > Len(key_map) THEN <<>>
    ELSE Eval(IF AnyKeywordIn(key_map[b].kws, fl)
              THEN FirstColumnContaining(key_map[b].key, cols)
              ELSE <<>>,
              LAMBDA m : IF m # <<>> THEN m ELSE KeywordMatch(fl, cols, b + 1))

\* Python truthiness of `matched_expected` (None and "" are falsy)
Truthy(m) == m # <<>> /\ m[1] # ""

\* mapping[f] = v on a dict
DictSet(d, k, v) == [x \in (DOMAIN d) \cup {k} |-> IF x = k THEN v ELSE d[x]]

EmptyDict == [x \in {} |-> ""]

\* an iteration that keeps an unmatched label under its own name
MapOneAgentKeepsUnmatched(d, f, cols) ==
    Eval(Strip(Lower(f)), LAMBDA fl :
    Eval(ExactMatch(fl, cols), LAMBDA exact :
    Eval(IF ~Truthy(exact) THEN KeywordMatch(fl, cols, 1) ELSE exact, LAMBDA matched :
         DictSet(d, f, IF Truthy(matched) THEN matched[1] ELSE f))))

\* one iteration of agent_utils.guess_column_mapping's loop over found_cols
MapOneAgent(d, f, cols) ==
    Eval(Strip(Lower(f)), LAMBDA fl :
    Eval(ExactMatch(fl, cols), LAMBDA exact :
    Eval(IF ~Truthy(exact) THEN KeywordMatch(fl, cols, 1) ELSE exact, LAMBDA matched :
         IF Truthy(matched) THEN DictSet(d, f, matched[1]) ELSE d)))

\* one iteration of the generated _guess_mapping's loop over cols
MapOneGenerated(d, c, cols) ==
    Eval(Strip(Lower(c)), LAMBDA cl :
    Eval(ExactMatch(cl, cols), LAMBDA exact :
         IF exact # <<>> THEN DictSet(d, c, exact[1])
         ELSE IF c \in DOMAIN d THEN d
         ELSE Eval(KeywordMatch(cl, cols, 1), LAMBDA kw :
                   IF kw # <<>> THEN DictSet(d, c, kw[1]) ELSE d)))

RECURSIVE AgentLoop(_, _, _, _)
AgentLoop(d, found, cols, i) ==
    IF i > Len(found) THEN d
    ELSE Eval(MapOneAgent(d, found[i], cols), LAMBDA d2 : AgentLoop(d2, found, cols, i + 1))

RECURSIVE GeneratedLoop(_, _, _, _)
GeneratedLoop(d, found, cols, i) ==
    IF i > Len(found) THEN d
    ELSE Eval(MapOneGenerated(d, found[i], cols), LAMBDA d2 : GeneratedLoop(d2, found, cols, i + 1))

guess_column_mapping(found, cols) == AgentLoop(EmptyDict, found, cols, 1)

_guess_mapping(found, cols) == GeneratedLoop(EmptyDict, found, cols, 1)

-----------------------------------------------------------------------------
(* Cell values.  A float is held exactly as a count of hundredths, which   *)
(* covers every amount the model's documents and reference tables use.     *)

NoneV == [t |-> "none"]                  \* Python None
NaN == [t |-> "nan"]                     \* float('nan')
Str(s) == [t |-> "str", s |-> s]
IntV(n) == [t |-> "int", n |-> n]
FloatV(h) == [t |-> "float", h |-> h]    \* the float h / 100

IsNull(v) == v.t \in {"none", "nan"}     \* pandas isna / checknull

Digits == "0123456789"
IsDigit(c) == c # "" /\ Contains(c, Digits)
DigitVal(c) == (CHOOSE i \in 1..Len(Digits) : CharAt(Digits, i) = c) - 1

RECURSIVE AllDigits(_)
AllDigits(s) == s = "" \/ (IsDigit(CharAt(s, 1)) /\ AllDigits(SubSeq(s, 2, Len(s))))

RECURSIVE DigitsToNat(_)
DigitsToNat(s) ==
    IF s = "" THEN 0
    ELSE 10 * DigitsToNat(SubSeq(s, 1, Len(s) - 1)) + DigitVal(CharAt(s, Len(s)))

RECURSIVE NatToStr(_)
NatToStr(n) ==
    IF n < 10 THEN CharAt(Digits, n + 1)
    ELSE NatToStr(n \div 10) \o CharAt(Digits, (n % 10) + 1)

IntToStr(n) == IF n < 0 THEN "-" \o NatToStr(0 - n) ELSE NatToStr(n)

\* repr of the float h / 100: "1000.0", "1234.5", "0.25"
FloatToStr(h) ==
    LET a == IF h < 0 THEN 0 - h ELSE h
        frac == a % 100
        fs == IF frac % 10 = 0 THEN NatToStr(frac \div 10)
              ELSE NatToStr(frac \div 10) \o NatToStr(frac % 10)
    IN (IF h < 0 THEN "-" ELSE "") \o NatToStr(a \div 100) \o "." \o fs

\* str(value)
PyStr(v) ==
    CASE v.t = "str" -> v.s
      [] v.t = "int" -> IntToStr(v.n)
      [] v.t = "float" -> FloatToStr(v.h)
      [] v.t = "nan" -> "nan"
      [] v.t = "none" -> "None"

\* position of the first occurrence of character c in s, 0 if none
FirstIndexOf(c, s) ==
    LET hits == {i \in 1..Len(s) : CharAt(s, i) = c}
    IN IF hits = {} THEN 0 ELSE CHOOSE i \in hits : \A j \in hits : i <= j

\* s.replace(c, "") for a single character c
RECURSIVE RemoveChar(_, _)
RemoveChar(s, c) ==
    IF s = "" THEN ""
    ELSE (IF CharAt(s, 1) = c THEN "" ELSE CharAt(s, 1)) \o RemoveChar(SubSeq(s, 2, Len(s)), c)

\* float(s) on [sign] digits [. digits] with at most two decimals, as
\* <<hundredths>>; <<>> stands for the ValueError on any other string
ParseFloat(s0) ==
    LET s1 == Strip(s0)
        neg == s1 # "" /\ CharAt(s1, 1) = "-"
        s == IF s1 # "" /\ CharAt(s1, 1) \in {"-", "+"} THEN SubSeq(s1, 2, Len(s1)) ELSE s1
        dot == FirstIndexOf(".", s)
        ip == IF dot = 0 THEN s ELSE SubSeq(s, 1, dot - 1)
        fp == IF dot = 0 THEN "" ELSE SubSeq(s, dot + 1, Len(s))
        fv == IF Len(fp) = 0 THEN 0
              ELSE IF Len(fp) = 1 THEN 10 * DigitsToNat(fp)
              ELSE DigitsToNat(fp)
        mag == 100 * DigitsToNat(ip) + fv
    IN IF AllDigits(ip) /\ AllDigits(fp) /\ Len(ip) + Len(fp) > 0 /\ Len(fp) <= 2
       THEN <<IF neg THEN 0 - mag ELSE mag>>
       ELSE <<>>

\* the generated _normalize_number
_normalize_number(value) ==
    IF value.t = "none" THEN NoneV
    ELSE IF value.t = "int" THEN FloatV(100 * value.n)
    ELSE IF value.t \in {"float", "nan"} THEN value
    ELSE LET s == Strip(PyStr(value))
             f == ParseFloat(RemoveChar(s, ","))
         IN IF s \in {"", "-"} THEN NoneV
            ELSE IF f # <<>> THEN FloatV(f[1])
            ELSE NoneV

IsLeap(y) == (y % 4 = 0 /\ y % 100 # 0) \/ y % 400 = 0
DaysIn(m, y) ==
    IF m = 2 THEN (IF IsLeap(y) THEN 29 ELSE 28)
    ELSE IF m \in {4, 6, 9, 11} THEN 30 ELSE 31

\* s.split(sep) into exactly three fields, or <<>>
Split3(s, sep) ==
    LET i == FirstIndexOf(sep, s)
        rest == SubSeq(s, i + 1, Len(s))
        j == FirstIndexOf(sep, rest)
        last == SubSeq(rest, j + 1, Len(rest))
    IN IF i = 0 \/ j = 0 \/ FirstIndexOf(sep, last) # 0 THEN <<>>
       ELSE <<SubSeq(s, 1, i - 1), SubSeq(rest, 1, j - 1), last>>

\* date_parser.parse(s, dayfirst=True) on numeric dates a/b/yyyy, a-b-yyyy and
\* yyyy-mm-dd, as <<[d, m, y]>>; <<>> stands for the parser's exception (every
\* other string the model draws is one the parser rejects).  With dayfirst
\* the first field is the day unless only the swapped reading is a date.
ParseDate(s0) ==
    LET s == Strip(s0)
        f == IF Split3(s, "/") # <<>> THEN Split3(s, "/") ELSE Split3(s, "-")
        ok == /\ f # <<>>
              /\ \A i \in 1..3 : f[i] # "" /\ AllDigits(f[i])
        a == DigitsToNat(f[1])
        b == DigitsToNat(f[2])
        c == DigitsToNat(f[3])
        Valid(d, m, y) == m \in 1..12 /\ d >= 1 /\ d <= DaysIn(m, y) /\ y >= 1
    IN IF ~ok THEN <<>>
       ELSE IF Len(f[1]) = 4 /\ Len(f[2]) <= 2 /\ Len(f[3]) <= 2
            THEN (IF Valid(c, b, a) THEN <<[d |-> c, m |-> b, y |-> a]>> ELSE <<>>)
       ELSE IF Len(f[1]) <= 2 /\ Len(f[2]) <= 2 /\ Len(f[3]) = 4
            THEN (IF Valid(a, b, c) THEN <<[d |-> a, m |-> b, y |-> c]>>
                  ELSE IF Valid(b, a, c) THEN <<[d |-> b, m |-> a, y |-> c]>>
                  ELSE <<>>)
       ELSE <<>>

Pad(n, w) == IF Len(NatToStr(n)) >= w THEN NatToStr(n)
             ELSE SubSeq("0000", 1, w - Len(NatToStr(n))) \o NatToStr(n)

\* d.strftime("%d-%m-%Y")
FormatDate(dt) == Pad(dt.d, 2) \o "-" \o Pad(dt.m, 2) \o "-" \o Pad(dt.y, 4)

\* the generated _norm_date
_norm_date(s) ==
    IF s.t = "none" \/ Strip(PyStr(s)) = "" THEN NoneV
    ELSE LET d == ParseDate(PyStr(s))
         IN IF d # <<>> THEN Str(FormatDate(d[1])) ELSE Str(PyStr(s))

-----------------------------------------------------------------------------
(* pandas frames, column-major: [n |-> rows, cols |-> <<column, ...>>] with *)
(* column = [name, dtype, vals].  Column labels may repeat.                *)

\* the dtype pandas infers for a column of Python objects: a string keeps it
\* object, so does a column of nothing but None; integers alone are int64;
\* any other mix of numbers and nulls is float64
Infer(vals) ==
    LET ts == {vals[i].t : i \in 1..Len(vals)}
    IN IF "str" \in ts \/ ts \subseteq {"none"} THEN "object"
       ELSE IF ts = {"int"} THEN "int64"
       ELSE "float64"

\* the values as the dtype stores them
Coerce(vals, dtype) ==
    IF dtype # "float64" THEN vals
    ELSE [i \in 1..Len(vals) |->
            IF vals[i].t = "none" THEN NaN
            ELSE IF vals[i].t = "int" THEN FloatV(100 * vals[i].n)
            ELSE vals[i]]

Column(name, vals) ==
    Eval(vals, LAMBDA vs :
    Eval(Infer(vs), LAMBDA dt : [name |-> name, dtype |-> dt, vals |-> Coerce(vs, dt)]))

Names(df) == [i \in 1..Len(df.cols) |-> df.cols[i].name]

HasDuplicates(seq) == \E i, j \in 1..Len(seq) : i < j /\ seq[i] = seq[j]

\* the columns of df labelled c, in frame order
RECURSIVE ColumnsNamed(_, _, _)
ColumnsNamed(df, c, i) ==
    IF i > Len(df.cols) THEN <<>>
    ELSE (IF df.cols[i].name = c THEN <<df.cols[i]>> ELSE <<>>) \o ColumnsNamed(df, c, i + 1)

\* df[labels]: each label selects every column that carries it
RECURSIVE SelectFrom(_, _, _)
SelectFrom(df, labels, k) ==
    IF k > Len(labels) THEN <<>>
    ELSE ColumnsNamed(df, labels[k], 1) \o SelectFrom(df, labels, k + 1)

Select(df, labels) == [n |-> df.n, cols |-> SelectFrom(df, labels, 1)]

\* df.rename(columns=mapping)
Rename(df, m) ==
    Eval(m, LAMBDA mp :
         [n |-> df.n,
          cols |-> [i \in 1..Len(df.cols) |->
                      [df.cols[i] EXCEPT !.name = IF @ \in DOMAIN mp THEN mp[@] ELSE @]]])

\* df[col] = None for every expected column the frame lacks
RECURSIVE EnsureColumns(_, _, _)
EnsureColumns(df, exp_cols, k) ==
    IF k > Len(exp_cols) THEN df
    ELSE IF InSeq(exp_cols[k], Names(df)) THEN EnsureColumns(df, exp_cols, k + 1)
    ELSE Eval([n |-> df.n,
               cols |-> Append(df.cols, Column(exp_cols[k], [r \in 1..df.n |-> NoneV]))],
              LAMBDA df2 : EnsureColumns(df2, exp_cols, k + 1))

\* Python truthiness of a header cell
TruthyCell(h) ==
    CASE h.t = "none" -> FALSE
      [] h.t = "str" -> h.s # ""
      [] h.t = "int" -> h.n # 0
      [] h.t = "float" -> h.h # 0
      [] h.t = "nan" -> TRUE

\* str(h).strip() if h is not None else ""
HeaderLabel(h) == IF h.t = "none" THEN "" ELSE Strip(PyStr(h))

\* pd.DataFrame(rows, columns=labels) for one raw table t (header row first)
MakeFrame(t) ==
    LET header == t[1]
        rows == Tail(t)
    IN [n |-> Len(rows),
        cols |-> [i \in 1..Len(header) |->
                    Column(HeaderLabel(header[i]), [r \in 1..Len(rows) |-> rows[r][i]])]]

\* the frames one page contributes: none when extract_tables throws, and
\* none for a table with fewer than two rows or without a truthy header cell
RECURSIVE PageFrames(_, _)
PageFrames(tbls, k) ==
    IF k > Len(tbls) THEN <<>>
    ELSE LET t == tbls[k]
         IN (IF Len(t) < 2 \/ ~(\E i \in 1..Len(t[1]) : TruthyCell(t[1][i]))
             THEN <<>> ELSE <<MakeFrame(t)>>) \o PageFrames(tbls, k + 1)

RECURSIVE DocFrames(_, _)
DocFrames(doc, p) ==
    IF p > Len(doc) THEN <<>>
    ELSE (IF doc[p].throws THEN <<>> ELSE PageFrames(doc[p].tables, 1)) \o DocFrames(doc, p + 1)

\* labels in order of first appearance
RECURSIVE Distinct(_, _, _)
Distinct(seq, k, acc) ==
    IF k > Len(seq) THEN acc
    ELSE Eval(IF InSeq(seq[k], acc) THEN acc ELSE Append(acc, seq[k]),
              LAMBDA acc2 : Distinct(seq, k + 1, acc2))

RECURSIVE AllNames(_, _)
AllNames(frames, k) == IF k > Len(frames) THEN <<>> ELSE Names(frames[k]) \o AllNames(frames, k + 1)

RECURSIVE TotalRows(_, _)
TotalRows(frames, k) == IF k > Len(frames) THEN 0 ELSE frames[k].n + TotalRows(frames, k + 1)

IndexOfName(fr, name) ==
    LET hits == {i \in 1..Len(fr.cols) : fr.cols[i].name = name}
    IN IF hits = {} THEN 0 ELSE CHOOSE i \in hits : \A j \in hits : i <= j

\* where frame fr holds the column sel: by position when all frames carry
\* the same labels, by label otherwise (0: the frame lacks it)
PickColumn(fr, sel) == IF sel.by = "position" THEN sel.i ELSE IndexOfName(fr, sel.name)

\* the stored values of column sel stacked over the frames, NaN where a
\* frame lacks the column
RECURSIVE Stack(_, _, _)
Stack(frames, sel, k) ==
    IF k > Len(frames) THEN <<>>
    ELSE (IF PickColumn(frames[k], sel) = 0 THEN [r \in 1..frames[k].n |-> NaN]
          ELSE frames[k].cols[PickColumn(frames[k], sel)].vals) \o Stack(frames, sel, k + 1)

\* dtype of a stacked column: object if any piece is object; int64 only if
\* every frame has the column as int64; float64 otherwise
StackedDtype(frames, sel) ==
    LET ds == {IF PickColumn(frames[k], sel) = 0 THEN "missing"
               ELSE frames[k].cols[PickColumn(frames[k], sel)].dtype : k \in 1..Len(frames)}
    IN IF "object" \in ds THEN "object"
       ELSE IF ds = {"int64"} THEN "int64"
       ELSE "float64"

StackedColumn(name, frames, sel) ==
    Eval(StackedDtype(frames, sel), LAMBDA dt :
    Eval(Stack(frames, sel, 1), LAMBDA vs : [name |-> name, dtype |-> dt, vals |-> Coerce(vs, dt)]))

\* pd.concat(tables, ignore_index=True, sort=False), as [st, df]: frames with
\* the same labels stack by position; otherwise the labels are united in
\* order of first appearance, which pandas refuses ("raise") when a frame
\* repeats a label
Concat(frames) ==
    IF Len(frames) = 1 THEN [st |-> "ok", df |-> frames[1]]
    ELSE IF \A k \in 1..Len(frames) : Names(frames[k]) = Names(frames[1])
         THEN [st |-> "ok",
               df |-> [n |-> TotalRows(frames, 1),
                       cols |-> [i \in 1..Len(frames[1].cols) |->
                                   StackedColumn(frames[1].cols[i].name, frames,
                                                 [by |-> "position", i |-> i])]]]
    ELSE IF \E k \in 1..Len(frames) : HasDuplicates(Names(frames[k]))
         THEN [st |-> "raise"]
    ELSE Eval(Distinct(AllNames(frames, 1), 1, <<>>), LAMBDA labels :
              [st |-> "ok",
               df |-> [n |-> TotalRows(frames, 1),
                       cols |-> [i \in 1..Len(labels) |->
                                   StackedColumn(labels[i], frames,
                                                 [by |-> "label", name |-> labels[i]])]]])

\* the function a normalisation step maps over a column
Normalizer(step, v) == IF step = "date" THEN _norm_date(v) ELSE _normalize_number(v)

\* df[c] = df[c].map(f): Series.map on the one column labelled c, f being the
\* normaliser of the step ("date" or "number").  When the
\* label repeats, df[c] is a frame: a pandas with DataFrame.map maps every
\* such column, an older pandas has no such method ("raise")
MapColumn(df, c, step, frameMap) ==
    IF Len(ColumnsNamed(df, c, 1)) > 1 /\ ~frameMap THEN [st |-> "raise"]
    ELSE [st |-> "ok",
          df |-> [n |-> df.n,
                  cols |-> [i \in 1..Len(df.cols) |->
                              IF df.cols[i].name = c
                              THEN Column(c, [r \in 1..df.n |-> Normalizer(step, df.cols[i].vals[r])])
                              ELSE df.cols[i]]]]

IsNumericName(c) ==
    \E k \in {"debit", "credit", "balance", "amount", "amt"} : Contains(k, Lower(c))

\* the loop `for c in df.columns: ... df[c] = df[c].map(_normalize_number)`
\* over the labels `names` from position k on
RECURSIVE NormalizeNumbers(_, _, _, _)
NormalizeNumbers(res, names, k, frameMap) ==
    IF res.st # "ok" \/ k > Len(names) THEN res
    ELSE IF IsNumericName(names[k])
         THEN Eval(MapColumn(res.df, names[k], "number", frameMap),
                   LAMBDA res2 : NormalizeNumbers(res2, names, k + 1, frameMap))
         ELSE NormalizeNumbers(res, names, k + 1, frameMap)

\* the date step: the first column whose name contains "date"
NormalizeDate(df, frameMap) ==
    LET ds == {i \in 1..Len(df.cols) : Contains("date", Lower(df.cols[i].name))}
    IN IF ds = {} THEN [st |-> "ok", df |-> df]
       ELSE MapColumn(df, df.cols[CHOOSE i \in ds : \A j \in ds : i <= j].name,
                      "date", frameMap)

NonBlankNames(df) == SelectSeq(Names(df), LAMBDA c : Strip(c) # "")

\* the generated parse(pdf_path) for the schema EXPECTED_COLUMNS, on the
\* document doc, as [st |-> "ok", df |-> table] or [st |-> "raise"]
parse(doc, EXPECTED_COLUMNS, frameMap) ==
    Eval(DocFrames(doc, 1), LAMBDA tables :
      IF tables = <<>>
      THEN [st |-> "ok",
            df |-> [n |-> 0,
                    cols |-> [i \in 1..Len(EXPECTED_COLUMNS) |-> Column(EXPECTED_COLUMNS[i], <<>>)]]]
      ELSE
    Eval(Concat(tables), LAMBDA cat :
      IF cat.st # "ok" THEN [st |-> "raise"]
      ELSE
    Eval(Select(cat.df, NonBlankNames(cat.df)), LAMBDA kept :
    Eval(Rename(kept, _guess_mapping(Names(kept), EXPECTED_COLUMNS)), LAMBDA renamed :
    Eval(EnsureColumns(renamed, EXPECTED_COLUMNS, 1), LAMBDA filled :
    Eval(Select(filled, EXPECTED_COLUMNS), LAMBDA df :
    Eval(NormalizeDate(df, frameMap), LAMBDA dated :
      IF dated.st # "ok" THEN [st |-> "raise"]
      ELSE NormalizeNumbers(dated, Names(dated.df), 1, frameMap))))))))

-----------------------------------------------------------------------------
(* The validator's comparison *)

\* pd.read_csv of a reference file [header, rows]: an empty field is NaN
read_expected_csv_schema(ref) ==
    [n |-> Len(ref.rows),
     cols |-> [i \in 1..Len(ref.header) |->
                 Column(ref.header[i], [r \in 1..Len(ref.rows) |-> ref.rows[r][i]])]]

\* Python == on two non-null cell values
ValueEq(x, y) ==
    CASE x.t = "str" /\ y.t = "str" -> x.s = y.s
      [] x.t = "int" /\ y.t = "int" -> x.n = y.n
      [] x.t = "float" /\ y.t = "float" -> x.h = y.h
      [] x.t = "int" /\ y.t = "float" -> 100 * x.n = y.h
      [] x.t = "float" /\ y.t = "int" -> x.h = 100 * y.n
      [] OTHER -> FALSE

\* the cell equality of DataFrame.equals: nulls of the same kind are equal
CellEquals(x, y) ==
    IF IsNull(x) \/ IsNull(y) THEN x.t = y.t ELSE ValueEq(x, y)

ColumnEquals(a, b) ==
    /\ a.dtype = b.dtype
    /\ Len(a.vals) = Len(b.vals)
    /\ \A r \in 1..Len(a.vals) : CellEquals(a.vals[r], b.vals[r])

\* parsed_df.equals(expected_df): same labels, same length, and column by
\* column the same dtype and the same values
Equals(a, b) ==
    /\ a.n = b.n
    /\ Names(a) = Names(b)
    /\ \A i \in 1..Len(a.cols) : ColumnEquals(a.cols[i], b.cols[i])

\* one cell of (parsed_df != expected_df): a null on either side compares
\* unequal, also to another null
CellNotEqual(x, y) == IsNull(x) \/ IsNull(y) \/ ~ValueEq(x, y)

\* mismatch[mismatch].index[0] of the stacked mask, as <<[row, col]>> with the
\* 0-based row and the column label; <<>> when the comparison raises (the
\* frames are not identically labelled) or the mask has no True
FirstMismatch(a, b) ==
    IF a.n # b.n \/ Names(a) # Names(b) THEN <<>>
    ELSE Eval({rc \in (1..a.n) \X (1..Len(a.cols)) :
                 CellNotEqual(a.cols[rc[2]].vals[rc[1]], b.cols[rc[2]].vals[rc[1]])},
              LAMBDA cells :
                 IF cells = {} THEN <<>>
                 ELSE Eval(CHOOSE p \in cells : \A q \in cells :
                               p[1] < q[1] \/ (p[1] = q[1] /\ p[2] <= q[2]),
                           LAMBDA first : <<[row |-> first[1] - 1, col |-> a.cols[first[2]].name]>>))

Shape(df) == <<df.n, Len(df.cols)>>

\* the comparison of attempt_generate_and_validate: (equals, debug_info)
Validate(parse_out, cols, expected_df) ==
    Eval(Select(parse_out, cols), LAMBDA parsed_df :
    Eval(Equals(parsed_df, expected_df), LAMBDA equals :
         [success |-> equals,
          debug |-> [expected_shape |-> Shape(expected_df),
                     parsed_shape |-> Shape(parsed_df),
                     first_mismatch |-> IF equals THEN <<>>
                                        ELSE FirstMismatch(parsed_df, expected_df)]]))

-----------------------------------------------------------------------------
(* Input universes *)

RawLabels == {"Date", " DATE ", "Txn Date", "Narration", "Details", "Description",
              "Withdrawal", "Deposit", "Closing Balance", "Dr/Cr", "Address", "Ref No"}

IciciSchema == <<"Date", "Description", "Debit Amt", "Credit Amt", "Balance">>

Schemas == {IciciSchema,
            <<"Date", "Credit", "Balance">>,
            <<"Value Date", "Txn Date", "Particulars", "Amount">>,
            <<"Balance", "Credit Balance", "Debit">>}

SeqsUpTo(S, n) == UNION {[1..k -> S] : k \in 0..n}

MapIdle == found_cols = <<>> /\ expected_cols = <<>> /\ mapping = <<>> /\ mapper = "idle"
ParseIdle == document = <<>> /\ schema = <<>> /\ returned = <<>>
RunIdle ==
    /\ pdf = <<>> /\ csv = <<>> /\ max_attempts = 0 /\ parser_file = <<>>
    /\ sys_modules = <<>> /\ pc = "idle" /\ attempt = 0 /\ expected = <<>>
    /\ module = <<>> /\ parsed = <<>> /\ result = <<>> /\ out = <<>>
    /\ exit_code = <<>> /\ steps = <<>> /\ hist = <<>> /\ writes = <<>> /\ edits = 0

-----------------------------------------------------------------------------
(* MapSpec: the mapper on its own, inputs from bounded sets, one call *)

MapInit ==
    /\ found_cols \in SeqsUpTo(RawLabels, MaxFound)
    /\ expected_cols \in Schemas
    /\ mapping = <<>>
    /\ mapper = "none"
    /\ pandas_frame_map = TRUE
    /\ ParseIdle /\ RunIdle

CallGuessColumnMapping ==
    /\ mapper = "none"
    /\ mapping' = <<guess_column_mapping(found_cols, expected_cols)>>
    /\ mapper' = "agent_utils"
    /\ UNCHANGED <<found_cols, expected_cols, pvars, pandas_frame_map, rvars>>

CallGeneratedGuessMapping ==
    /\ mapper = "none"
    /\ mapping' = <<_guess_mapping(found_cols, expected_cols)>>
    /\ mapper' = "generated"
    /\ UNCHANGED <<found_cols, expected_cols, pvars, pandas_frame_map, rvars>>

MapNext == CallGuessColumnMapping \/ CallGeneratedGuessMapping

MapSpec == MapInit /\ [][MapNext]_vars

-----------------------------------------------------------------------------
(* ParseSpec: the generated parse on its own.  A document is one page with  *)
(* one generated table (any header of up to MaxCols cells, two data rows)   *)
(* followed by one of a few fixed tails.                                    *)

HeaderCells == {Str("Date"), Str("Narration"), Str("Details"), Str("Withdrawal"),
                Str("Balance"), Str("Ref No"), Str(" "), NoneV}

SampleCells == <<Str("05/01/2024"), Str("1,250.00"), Str(""), Str("31/01/2024")>>

GeneratedTable(header) ==
    << header,
       [i \in 1..Len(header) |-> SampleCells[((i - 1) % Len(SampleCells)) + 1]],
       [i \in 1..Len(header) |-> SampleCells[(i % Len(SampleCells)) + 1]] >>

Page(tables) == [throws |-> FALSE, tables |-> tables]
ThrowingPage(tables) == [throws |-> TRUE, tables |-> tables]

DocumentTails ==
    { <<>>,
      <<Page(<< << <<Str("Date"), Str("Deposit")>>, <<Str("06/01/2024"), Str("10")>> >> >>)>>,
      <<ThrowingPage(<< << <<Str("Cheque")>>, <<Str("77")>> >> >>),
        Page(<< << <<Str("Date"), Str("Deposit")>> >>, << <<NoneV, Str("")>>, <<Str("x"), Str("y")>> >> >>)>> }

ParseInit ==
    /\ \E header \in SeqsUpTo(HeaderCells, MaxCols), tail \in DocumentTails :
          document = (IF header = <<>> THEN <<>> ELSE <<Page(<<GeneratedTable(header)>>)>>) \o tail
    /\ schema \in Schemas
    /\ returned = <<>>
    /\ pandas_frame_map \in BOOLEAN
    /\ MapIdle /\ RunIdle

CallParse ==
    /\ returned = <<>>
    /\ returned' = <<parse(document, schema, pandas_frame_map)>>
    /\ UNCHANGED <<document, schema, mvars, pandas_frame_map, rvars>>

ParseNext == CallParse

ParseSpec == ParseInit /\ [][ParseNext]_vars

-----------------------------------------------------------------------------
(* Spec: one run of run_agent(target, max_attempts) *)

Target == "icici"

\* a builder that changes its schema literal on a retry
generate_parser_code_retrying(bank, cols) ==
    [template |-> "pdfplumber_pandas",
     EXPECTED_COLUMNS |-> IF attempt > 1 THEN Append(cols, "Attempt") ELSE cols]

\* generate_parser_code: the template is fixed; the only part of the text
\* that varies is the EXPECTED_COLUMNS literal (the bank is not used)
generate_parser_code(bank, cols) == [template |-> "pdfplumber_pandas", EXPECTED_COLUMNS |-> cols]

\* range(1, max_attempts)
LoopStopsEarly(a, n) == a < n

\* `for attempt in range(1, max_attempts + 1)`: the loop body runs
LoopContinues(a, n) == a <= n

\* a loader that keeps the module of the first attempt
LoadCached(file, a) ==
    IF hist # <<>> THEN [code |-> hist[1].artifact, loaded_in |-> 1]
    ELSE [code |-> file[1], loaded_in |-> a]

\* the module object exec_module builds from the file, in attempt a
LoadFromFile(file, a) == [code |-> file[1], loaded_in |-> a]

\* the sample documents
RawHeader == <<Str("Date"), Str("Narration"), Str("Withdrawal"), Str("Deposit"), Str("Closing Balance")>>

OpeningDoc ==
    <<Page(<< << RawHeader,
                 <<Str("01/01/2024"), Str("Opening Balance"), Str(""), Str(""), IntV(1000)>> >> >>)>>

SalaryDoc ==
    <<ThrowingPage(<< << RawHeader, <<Str("x"), Str("x"), Str("x"), Str("x"), Str("x")>> >> >>),
      Page(<< << RawHeader,
                 <<Str("01/01/2024"), Str("Salary"), Str(""), Str("5,000.00"), Str("6000")>>,
                 <<Str("02/01/2024"), Str("ATM"), Str("200"), Str("-"), Str("5800")>> >> >>)>>

TwoNarrationsDoc ==
    <<Page(<< << <<Str("Date"), Str("Narration"), Str("Details"), Str("Withdrawal"),
                   Str("Deposit"), Str("Balance")>>,
                 <<Str("01/01/2024"), Str("Salary"), Str("NEFT"), Str(""), Str("5,000.00"), Str("6000")>>,
                 <<Str("02/01/2024"), Str("ATM"), Str("Cash"), Str("200"), Str("-"), Str("5800")>> >> >>)>>

EmptyDoc == <<Page(<< << RawHeader >> >>)>>

Docs == {OpeningDoc, SalaryDoc, TwoNarrationsDoc, EmptyDoc}

\* the reference files, as read_csv sees their fields
OpeningCsv ==
    [header |-> IciciSchema,
     rows |-> << <<Str("01-01-2024"), Str("Opening Balance"), NaN, NaN, FloatV(100000)>> >>]

SalaryCsv ==
    [header |-> IciciSchema,
     rows |-> << <<Str("01-01-2024"), Str("Salary"), NaN, FloatV(500000), FloatV(600000)>>,
                 <<Str("02-01-2024"), Str("ATM"), FloatV(20000), NaN, FloatV(580000)>> >>]

SalaryCsvOtherBalance ==
    [header |-> IciciSchema,
     rows |-> << <<Str("01-01-2024"), Str("Salary"), NaN, FloatV(500000), FloatV(600000)>>,
                 <<Str("02-01-2024"), Str("ATM"), FloatV(20000), NaN, FloatV(590000)>> >>]

NarrowCsv ==
    [header |-> <<"Date", "Credit", "Balance">>,
     rows |-> << <<Str("01-01-2024"), FloatV(500000), FloatV(600000)>>,
                 <<Str("02-01-2024"), NaN, FloatV(580000)>> >>]

Csvs == {OpeningCsv, SalaryCsv, SalaryCsvOtherBalance, NarrowCsv}

\* what an earlier run for another reference left behind
StaleArtifact == generate_parser_code(Target, <<"Date", "Amount">>)

Init ==
    /\ attempt = 0
    /\ hist = <<>>
    /\ pdf \in {<<>>} \cup {<<d>> : d \in Docs}
    /\ csv \in {<<>>} \cup {<<r>> : r \in Csvs}
    /\ max_attempts \in 0..MaxAttemptsBound
    /\ \/ parser_file = <<>> /\ sys_modules = <<>>
       \/ parser_file = <<StaleArtifact>> /\ sys_modules = <<LoadFromFile(<<StaleArtifact>>, 0)>>
    /\ pandas_frame_map \in BOOLEAN
    /\ pc = "start"
    /\ expected = <<>> /\ module = <<>> /\ parsed = <<>> /\ result = <<>>
    /\ out = <<>> /\ exit_code = <<>>
    /\ steps = <<>> /\ writes = <<>> /\ edits = 0
    /\ MapIdle /\ ParseIdle

Others == <<mvars, pvars, pandas_frame_map>>

\* a discovery that does not check for the reference CSV
DiscoverPdfOnly ==
    /\ pc = "start"
    /\ IF pdf = <<>>
       THEN pc' = "raised" /\ attempt' = attempt
       ELSE pc' = "loop" /\ attempt' = 1
    /\ UNCHANGED <<pdf, csv, max_attempts, parser_file, sys_modules, expected, module,
                   parsed, result, out, exit_code, steps, hist, writes, edits, Others>>

\* run_agent up to the loop: discovery of the PDF and of the reference CSV
Discover ==
    /\ pc = "start"
    /\ IF pdf = <<>> \/ csv = <<>>
       THEN pc' = "raised" /\ attempt' = attempt      \* FileNotFoundError
       ELSE pc' = "loop" /\ attempt' = 1
    /\ UNCHANGED <<pdf, csv, max_attempts, parser_file, sys_modules, expected, module,
                   parsed, result, out, exit_code, steps, hist, writes, edits, Others>>

\* attempt_generate_and_validate: read_expected_csv_schema(plan.expected_csv_path)
ReadSchema ==
    /\ pc = "loop"
    /\ LoopContinues(attempt, max_attempts)
    /\ csv # <<>>
    /\ expected' = <<[cols |-> csv[1].header, df |-> read_expected_csv_schema(csv[1])]>>
    /\ module' = <<>> /\ parsed' = <<>> /\ result' = <<>>
    /\ steps' = <<"read">>
    /\ pc' = "write"
    /\ UNCHANGED <<pdf, csv, max_attempts, parser_file, sys_modules, attempt, out,
                   exit_code, hist, writes, edits, Others>>

\* generate_parser_code and write_file to the fixed per-target path
WriteArtifact ==
    /\ pc = "write"
    /\ parser_file' = <<generate_parser_code(Target, expected[1].cols)>>
    /\ writes' = Append(writes, attempt)
    /\ steps' = Append(steps, "write")
    /\ pc' = "invalidate"
    /\ UNCHANGED <<pdf, csv, max_attempts, sys_modules, attempt, expected, module, parsed,
                   result, out, exit_code, hist, edits, Others>>

\* `if module_name in sys.modules: del sys.modules[module_name]`
Invalidate ==
    /\ pc = "invalidate"
    /\ sys_modules' = <<>>
    /\ steps' = Append(steps, "invalidate")
    /\ pc' = "load"
    /\ UNCHANGED <<pdf, csv, max_attempts, parser_file, attempt, expected, module, parsed,
                   result, out, exit_code, hist, writes, edits, Others>>

\* spec_from_file_location, module_from_spec, exec_module: the module is
\* built from the file and is not entered into sys.modules
LoadModule ==
    /\ pc = "load"
    /\ module' = <<LoadFromFile(parser_file, attempt)>>
    /\ steps' = Append(steps, "load")
    /\ pc' = "parse"
    /\ UNCHANGED <<pdf, csv, max_attempts, parser_file, sys_modules, attempt, expected,
                   parsed, result, out, exit_code, hist, writes, edits, Others>>

\* module.parse(str(plan.pdf_path)); an exception of parse leaves run_agent
RunParse ==
    /\ pc = "parse"
    /\ \E r \in {parse(pdf[1], module[1].code.EXPECTED_COLUMNS, pandas_frame_map)} :
          IF r.st = "ok"
          THEN /\ parsed' = <<[by |-> module[1], df |-> r.df]>>
               /\ pc' = "compare"
          ELSE /\ parsed' = parsed
               /\ pc' = "raised"
    /\ steps' = Append(steps, "parse")
    /\ UNCHANGED <<pdf, csv, max_attempts, parser_file, sys_modules, attempt, expected,
                   module, result, out, exit_code, hist, writes, edits, Others>>

\* reindex, equals, debug_info; the attempt returns (equals, debug)
Compare ==
    /\ pc = "compare"
    /\ \E v \in {Validate(parsed[1].df, expected[1].cols, expected[1].df)} :
          /\ result' = <<v>>
          /\ hist' = Append(hist, [artifact |-> parser_file[1],
                                   success |-> v.success,
                                   debug |-> v.debug])
    /\ steps' = Append(steps, "compare")
    /\ pc' = "report"
    /\ UNCHANGED <<pdf, csv, max_attempts, parser_file, sys_modules, attempt, expected,
                   module, parsed, out, exit_code, writes, edits, Others>>

\* a loop body that prints PASS and goes on to the next attempt
ReportWithoutReturn ==
    /\ pc = "report"
    /\ out' = Append(out, IF result[1].success
                          THEN [line |-> "PASS", attempt |-> attempt]
                          ELSE [line |-> "FAIL", attempt |-> attempt, debug |-> result[1].debug])
    /\ pc' = "loop"
    /\ attempt' = attempt + 1
    /\ UNCHANGED <<pdf, csv, max_attempts, parser_file, sys_modules, expected, module,
                   parsed, result, exit_code, steps, hist, writes, edits, Others>>

\* run_agent's loop body after the attempt: PASS and return 0, or FAIL and go on
Report ==
    /\ pc = "report"
    /\ IF result[1].success
       THEN /\ out' = Append(out, [line |-> "PASS", attempt |-> attempt])
            /\ exit_code' = <<0>>
            /\ pc' = "done"
            /\ attempt' = attempt
       ELSE /\ out' = Append(out, [line |-> "FAIL", attempt |-> attempt, debug |-> result[1].debug])
            /\ exit_code' = exit_code
            /\ pc' = "loop"
            /\ attempt' = attempt + 1
    /\ UNCHANGED <<pdf, csv, max_attempts, parser_file, sys_modules, expected, module,
                   parsed, result, steps, hist, writes, edits, Others>>

\* the loop is over: "Max attempts reached without success." and return 1
Exhaust ==
    /\ pc = "loop"
    /\ ~LoopContinues(attempt, max_attempts)
    /\ out' = Append(out, [line |-> "EXHAUSTED"])
    /\ exit_code' = <<1>>
    /\ pc' = "done"
    /\ UNCHANGED <<pdf, csv, max_attempts, parser_file, sys_modules, attempt, expected,
                   module, parsed, result, steps, hist, writes, edits, Others>>

\* the environment replaces the reference file between two attempts
EditReference ==
    /\ pc = "loop" /\ attempt >= 2 /\ LoopContinues(attempt, max_attempts)
    /\ edits < MaxEdits
    /\ \E r \in Csvs : r # csv[1] /\ csv' = <<r>>
    /\ edits' = edits + 1
    /\ UNCHANGED <<pdf, max_attempts, parser_file, sys_modules, pc, attempt, expected,
                   module, parsed, result, out, exit_code, steps, hist, writes, Others>>

\* the environment replaces the sample document between two attempts
EditSample ==
    /\ pc = "loop" /\ attempt >= 2 /\ LoopContinues(attempt, max_attempts)
    /\ edits < MaxEdits
    /\ \E d \in Docs : d # pdf[1] /\ pdf' = <<d>>
    /\ edits' = edits + 1
    /\ UNCHANGED <<csv, max_attempts, parser_file, sys_modules, pc, attempt, expected,
                   module, parsed, result, out, exit_code, steps, hist, writes, Others>>

Next ==
    \/ Discover \/ ReadSchema \/ WriteArtifact \/ Invalidate \/ LoadModule
    \/ RunParse \/ Compare \/ Report \/ Exhaust \/ EditReference \/ EditSample

Spec == Init /\ [][Next]_vars

-----------------------------------------------------------------------------
(* Claims about the column mapper (checked under MapSpec) *)

TheMapping == mapping[1]
FoundSet == {found_cols[i] : i \in 1..Len(found_cols)}
SchemaSet == {expected_cols[i] : i \in 1..Len(expected_cols)}

Norm(f) == Strip(Lower(f))
SchemaNorms == {Strip(Lower(expected_cols[i])) : i \in 1..Len(expected_cols)}
HasExact(f) == Norm(f) \in SchemaNorms
\* buckets one of whose keywords occurs in the normalized label
KeywordBuckets(f) ==
    LET fl == Norm(f)
    IN {b \in 1..Len(key_map) : \E i \in 1..Len(key_map[b].kws) : Contains(key_map[b].kws[i], fl)}
\* schema positions whose lowercased name contains bucket b's concept name
ConceptColumns(b) ==
    {i \in 1..Len(expected_cols) : Contains(key_map[b].key, Lower(expected_cols[i]))}
Least(S) == CHOOSE x \in S : \A y \in S : x <= y

\* C5: the mapping's keys are raw labels, its values are schema columns, and
\* a label with no exact schema match and no keyword of any bucket is absent.
C5_KeysAndValues ==
    mapper # "none" =>
        /\ DOMAIN TheMapping \subseteq FoundSet
        /\ \A f \in DOMAIN TheMapping : TheMapping[f] \in SchemaSet
        /\ \A f \in FoundSet :
              (~HasExact(f) /\ KeywordBuckets(f) = {}) => f \notin DOMAIN TheMapping

\* a call that mapped one label and left another, matching nothing, out
C5_Witness ==
    /\ mapper # "none"
    /\ DOMAIN TheMapping # {}
    /\ \E f \in FoundSet : ~HasExact(f) /\ KeywordBuckets(f) = {} /\ f \notin DOMAIN TheMapping

\* C8 as stated: for a label without an exact match, the first bucket with a
\* keyword in the label decides: a mapped label is mapped to the first schema
\* column containing that bucket's concept name, never by a later bucket.
C8_FirstKeywordBucketWins ==
    mapper # "none" =>
        \A f \in FoundSet :
            (~HasExact(f) /\ KeywordBuckets(f) # {} /\ f \in DOMAIN TheMapping) =>
                LET b == Least(KeywordBuckets(f))
                IN /\ ConceptColumns(b) # {}
                   /\ TheMapping[f] = expected_cols[Least(ConceptColumns(b))]

\* C8 amended: the first bucket that has a keyword in the label AND a schema
\* column containing its concept name decides; without such a bucket the
\* label is unmapped.
C8_FirstProductiveBucketWins ==
    mapper # "none" =>
        \A f \in FoundSet :
            ~HasExact(f) =>
                LET B == {b \in KeywordBuckets(f) : ConceptColumns(b) # {}}
                IN IF B = {} THEN f \notin DOMAIN TheMapping
                   ELSE /\ f \in DOMAIN TheMapping
                        /\ TheMapping[f] = expected_cols[Least(ConceptColumns(Least(B)))]

\* a label mapped by the keyword pass where two buckets have a keyword in it
C8_Witness ==
    /\ mapper # "none"
    /\ \E f \in DOMAIN TheMapping :
          /\ ~HasExact(f)
          /\ Cardinality(KeywordBuckets(f)) >= 2
          /\ \E b \in KeywordBuckets(f) : ConceptColumns(b) # {}

-----------------------------------------------------------------------------
(* Claims about the generated parse routine (checked under ParseSpec) *)

\* C3: whenever parse returns a table, its columns are exactly the schema:
\* same names, same order, same count.
C3_ColumnsEqualSchema ==
    (returned # <<>> /\ returned[1].st = "ok") => Names(returned[1].df) = schema

-----------------------------------------------------------------------------
(* Claims about a run of run_agent (checked under Spec) *)

NoSuccess == \A k \in 1..Len(hist) : ~hist[k].success
IsFailLine(i, k) == out[i].line = "FAIL" /\ out[i].attempt = k /\ out[i].debug = hist[k].debug

\* C1: with max_attempts = N >= 1 and every validation failing, the run
\* never prints PASS, and when it returns it has made exactly N attempts,
\* printed FAIL for attempts 1..N in order and then the exhaustion line once,
\* and its exit code is 1.
C1_ExhaustedAfterNFailures ==
    (pc # "idle" /\ max_attempts >= 1 /\ NoSuccess) =>
        /\ \A i \in 1..Len(out) : out[i].line # "PASS"
        /\ exit_code # <<0>>
        /\ pc = "done" =>
              /\ Len(hist) = max_attempts
              /\ Len(out) = max_attempts + 1
              /\ \A k \in 1..max_attempts : IsFailLine(k, k)
              /\ out[max_attempts + 1].line = "EXHAUSTED"
              /\ exit_code = <<1>>

\* a run of at least two attempts that ended exhausted
C1_Witness ==
    /\ pc = "done" /\ max_attempts >= 2 /\ NoSuccess
    /\ Len(hist) = max_attempts /\ exit_code = <<1>>

\* C2: the run returns 0 exactly when some attempt validated; a successful
\* attempt k <= max_attempts is the last attempt made, every attempt before
\* it printed FAIL, it prints "Attempt k: PASS", and no exhaustion line
\* follows.
C2_SuccessIsTerminal ==
    /\ exit_code = <<0>> => ~NoSuccess
    /\ pc = "done" => (exit_code = <<0>> <=> ~NoSuccess)
    /\ pc \in {"write", "invalidate", "load", "parse", "compare", "report"} =>
          attempt \in 1..max_attempts
    /\ \A k \in 1..Len(hist) :
          hist[k].success =>
             /\ k = Len(hist) /\ k = attempt /\ k <= max_attempts
             /\ pc \in {"report", "done"}
             /\ \A j \in 1..(k - 1) : IsFailLine(j, j)
             /\ pc = "done" => /\ Len(out) = k
                               /\ out[k] = [line |-> "PASS", attempt |-> k]
                               /\ exit_code = <<0>>

\* a run that returned 0 after its validation passed
C2_Witness ==
    /\ pc = "done" /\ exit_code = <<0>>
    /\ Len(hist) >= 1 /\ hist[Len(hist)].success
    /\ out[Len(out)].line = "PASS"

\* C6: when no PDF or no CSV is found, the run raises at once: no attempt
\* starts, the artifact is neither written nor overwritten, nothing is
\* printed and no exit code is returned.
C6_DiscoveryErrorIsImmediate ==
    (pc # "idle" /\ (pdf = <<>> \/ csv = <<>>)) =>
        /\ pc \in {"start", "raised"}
        /\ attempt = 0 /\ steps = <<>> /\ hist = <<>>
        /\ writes = <<>>
        /\ parser_file \in {<<>>, <<StaleArtifact>>}
        /\ out = <<>>
        /\ exit_code = <<>>

\* the run raised because the reference CSV is missing, next to an artifact
\* of an earlier run
C6_Witness ==
    pc = "raised" /\ pdf # <<>> /\ csv = <<>> /\ parser_file = <<StaleArtifact>>

AttemptSteps == <<"read", "write", "invalidate", "load", "parse", "compare">>

C10_FreshModuleEveryAttempt ==
    pc # "idle" =>
        /\ Len(steps) <= Len(AttemptSteps)
        /\ steps = SubSeq(AttemptSteps, 1, Len(steps))
        /\ pc \in {"invalidate", "load", "parse", "compare", "report"} =>
              /\ Len(writes) = attempt
              /\ \A k \in 1..attempt : writes[k] = k
              /\ parser_file = <<generate_parser_code(Target, expected[1].cols)>>
        /\ pc \in {"load", "parse", "compare", "report"} => sys_modules = <<>>
        /\ pc \in {"parse", "compare", "report"} =>
              module = <<[code |-> parser_file[1], loaded_in |-> attempt]>>
        /\ pc \in {"compare", "report"} =>
              /\ parsed[1].by.loaded_in = attempt
              /\ parsed[1].by.code = parser_file[1]
              /\ writes[Len(writes)] = attempt

\* a second attempt whose parse has run, in a process that started with a
\* stale module of the target in the registry
C10_Witness ==
    /\ pc = "compare" /\ attempt = 2
    /\ parsed[1].by.loaded_in = 2
    /\ edits = 1
    /\ parser_file # <<hist[1].artifact>>

\* C9 as stated: a reported first-mismatch coordinate is the first cell, in
\* row-major order, at which the extracted and the reference value differ
\* when null equals null; a cell with two nulls or two equal values is never
\* reported.
SameCell(x, y) == IF IsNull(x) \/ IsNull(y) THEN IsNull(x) /\ IsNull(y) ELSE ValueEq(x, y)

C9_FirstMismatchIsFirstDifference ==
    (pc = "report" /\ ~result[1].success /\ result[1].debug.first_mismatch # <<>>) =>
        LET a == Select(parsed[1].df, expected[1].cols)
            b == expected[1].df
            fm == result[1].debug.first_mismatch[1]
            Differs(r, c) == ~SameCell(a.cols[c].vals[r], b.cols[c].vals[r])
        IN \E r \in 1..a.n, c \in 1..Len(a.cols) :
              /\ fm = [row |-> r - 1, col |-> a.cols[c].name]
              /\ Differs(r, c)
              /\ \A r2 \in 1..a.n, c2 \in 1..Len(a.cols) :
                    (r2 < r \/ (r2 = r /\ c2 < c)) => ~Differs(r2, c2)

\* C4 as stated: the opening-balance reference and sample validate at
\* attempt 1, the run returns 0, and the persisted artifact still parses the
\* sample to a table equal to the reference.
C4_OpeningBalanceScenarioPasses ==
    (pdf = <<OpeningDoc>> /\ csv = <<OpeningCsv>> /\ edits = 0 /\ max_attempts >= 1
        /\ pc \in {"report", "done"}) =>
        /\ hist[1].success
        /\ pc = "done" =>
              /\ exit_code = <<0>> /\ Len(hist) = 1
              /\ LET again == parse(pdf[1], parser_file[1].EXPECTED_COLUMNS, pandas_frame_map)
                 IN again.st = "ok" /\ Equals(again.df, read_expected_csv_schema(csv[1]))

====
